---- MODULE Spec2Model ----
(***************************************************************************)
(* A model of ExperimentData/analyze_experiments.py: the three loaders,    *)
(* the summary parser and its numeric coercion, the inter-event delta,     *)
(* the trend-line guard, the prefix groups, the sorted results table and   *)
(* the extremal selection, run in the order main() runs them.              *)
(*                                                                         *)
(* Text is a sequence of one-character strings, so that split, strip and   *)
(* replace are computed character by character.  A number is a record      *)
(* [nan, num, den] holding num/den in lowest decimal terms (den a power of *)
(* ten), or the missing-value marker NaN.                                  *)
(***************************************************************************)
EXTENDS Integers, Sequences, FiniteSets, TLC

VARIABLES
    summaryDir,     \* the *_summary.txt files of DATA_DIR
    captureDir,     \* the *_captures.csv files of DATA_DIR
    snapshotDir,    \* the *_snapshots.csv files of DATA_DIR
    summaryOrder,   \* the order in which glob returned the summary files
    captureOrder,   \* the order in which glob returned the captures files
    snapshotOrder,  \* the order in which glob returned the snapshots files
    pc,             \* where main() is
    err,            \* the exception that ended main(), or "none"
    parsed,         \* load_all_summaries: the list of parsed dicts
    summaries,      \* main: the Run Record table
    captures,       \* main: the Capture Event table
    snapshots,      \* main: the Snapshot table
    summaryTable,   \* print_summary_table: the returned table
    timeDiff,       \* plot_confusion_effect: the time_diff column
    trend,          \* plot_confusion_effect: the fitted line, if any
    plotGroups,     \* plot_experiment_groups: what each axis shows
    reportDf,       \* write_analysis_report: the sorted table written
    reportGroups,   \* write_analysis_report: the section of each prefix
    fastest,        \* write_analysis_report: most efficient record
    slowest         \* write_analysis_report: least efficient record

vars == <<summaryDir, captureDir, snapshotDir, summaryOrder, captureOrder,
          snapshotOrder, pc, err, parsed, summaries, captures, snapshots,
          summaryTable, timeDiff, trend, plotGroups, reportDf, reportGroups,
          fastest, slowest>>

----------------------------------------------------------------------------
(* Python str operations *)

Whitespace == {" ", "\t", "\n"}

Digits == <<"0", "1", "2", "3", "4", "5", "6", "7", "8", "9">>

\* The characters the model uses, in code point order (str comparison).
CodePoints ==
    <<"\t", "\n", " ", ".", "/", "0", "1", "2", "3", "4", "5", "6", "7", "8",
      "9", ":", "=", "A", "B", "C", "D", "F", "I", "K", "N", "R", "T", "a",
      "b", "c", "d", "e", "i", "k", "l", "m", "n", "o", "p", "r", "s", "t",
      "u", "v", "x", "y">>

Ord(c) == CHOOSE i \in 1..Len(CodePoints) : CodePoints[i] = c

\* a < b for str
RECURSIVE StrLess(_, _)
StrLess(a, b) ==
    IF b = <<>> THEN FALSE
    ELSE IF a = <<>> THEN TRUE
    ELSE IF a[1] # b[1] THEN Ord(a[1]) < Ord(b[1])
    ELSE StrLess(Tail(a), Tail(b))

\* s.startswith(prefix)
StartsWith(s, prefix) ==
    /\ Len(prefix) <= Len(s)
    /\ SubSeq(s, 1, Len(prefix)) = prefix

\* sub in s
Contains(s, sub) ==
    \E i \in 1..(Len(s) + 1) :
        /\ i + Len(sub) - 1 <= Len(s)
        /\ SubSeq(s, i, i + Len(sub) - 1) = sub

\* s.find(sub): the lowest index (1-based) where sub starts, 0 if none
RECURSIVE FindFrom(_, _, _)
FindFrom(s, sub, i) ==
    IF i + Len(sub) - 1 > Len(s) THEN 0
    ELSE IF SubSeq(s, i, i + Len(sub) - 1) = sub THEN i
    ELSE FindFrom(s, sub, i + 1)

\* s.lstrip()
RECURSIVE LStrip(_)
LStrip(s) ==
    IF s # <<>> /\ s[1] \in Whitespace THEN LStrip(Tail(s)) ELSE s

\* s.rstrip()
RECURSIVE RStrip(_)
RStrip(s) ==
    IF s # <<>> /\ s[Len(s)] \in Whitespace
    THEN RStrip(SubSeq(s, 1, Len(s) - 1))
    ELSE s

\* s.strip()
Strip(s) == RStrip(LStrip(s))

\* s.replace(old, ''): every non-overlapping occurrence, left to right
RECURSIVE Remove(_, _)
Remove(s, old) ==
    IF Len(s) < Len(old) \/ s = <<>> THEN s
    ELSE IF SubSeq(s, 1, Len(old)) = old
         THEN Remove(SubSeq(s, Len(old) + 1, Len(s)), old)
         ELSE <<s[1]>> \o Remove(Tail(s), old)

\* line.split(':', 1): <<text before the first colon, text after it>>
SplitFirst(line, sep) ==
    LET i == FindFrom(line, sep, 1)
    IN  <<SubSeq(line, 1, i - 1), SubSeq(line, i + Len(sep), Len(line))>>

----------------------------------------------------------------------------
(* Numbers *)

NaN == [nan |-> TRUE, num |-> 0, den |-> 1]

Num(n, d) == [nan |-> FALSE, num |-> n, den |-> d]

IsNum(x) == ~x.nan

DigitValue(c) == (CHOOSE i \in 1..10 : Digits[i] = c) - 1

IsDigit(c) == \E i \in 1..10 : Digits[i] = c

RECURSIVE DigitsValue(_)
DigitsValue(s) ==
    IF s = <<>> THEN 0
    ELSE 10 * DigitsValue(SubSeq(s, 1, Len(s) - 1)) + DigitValue(s[Len(s)])

RECURSIVE Pow10(_)
Pow10(k) == IF k = 0 THEN 1 ELSE 10 * Pow10(k - 1)

\* num/den with trailing decimal zeros dropped
RECURSIVE Lowest(_, _)
Lowest(n, d) ==
    IF d > 1 /\ n % 10 = 0 THEN Lowest(n \div 10, d \div 10) ELSE Num(n, d)

\* ToNumeric giving 0 where the text is no number
ToNumericOrZero(text) ==
    LET s    == Strip(text)
        dot  == FindFrom(s, <<".">>, 1)
        ip   == IF dot = 0 THEN s ELSE SubSeq(s, 1, dot - 1)
        fp   == IF dot = 0 THEN <<>> ELSE SubSeq(s, dot + 1, Len(s))
        okay == /\ Len(ip) + Len(fp) > 0
                /\ \A i \in 1..Len(ip) : IsDigit(ip[i])
                /\ \A i \in 1..Len(fp) : IsDigit(fp[i])
    IN  IF okay
        THEN Lowest(DigitsValue(ip \o fp), Pow10(Len(fp)))
        ELSE Num(0, 1)

\* pd.to_numeric(text, errors='coerce') of one cell: blanks around the number
\* are skipped, then digits with at most one decimal point; anything else,
\* the empty string included, is NaN.
ToNumeric(text) ==
    LET s    == Strip(text)
        dot  == FindFrom(s, <<".">>, 1)
        ip   == IF dot = 0 THEN s ELSE SubSeq(s, 1, dot - 1)
        fp   == IF dot = 0 THEN <<>> ELSE SubSeq(s, dot + 1, Len(s))
        okay == /\ Len(ip) + Len(fp) > 0
                /\ \A i \in 1..Len(ip) : IsDigit(ip[i])
                /\ \A i \in 1..Len(fp) : IsDigit(fp[i])
    IN  IF okay
        THEN Lowest(DigitsValue(ip \o fp), Pow10(Len(fp)))
        ELSE NaN

\* a < b for two numbers that are not NaN
NumLess(a, b) == a.num * b.den < b.num * a.den

----------------------------------------------------------------------------
(* Tables (pandas DataFrame): a set of column names and a sequence of rows, *)
(* each row a function from the columns to cells.  A cell is a number, the  *)
(* text cell Text(s), or NaN where the row has no value.                    *)

Text(s) == [nan |-> FALSE, text |-> s]

EmptyFrame == [columns |-> {}, rows |-> <<>>]

Range(f) == {f[x] : x \in DOMAIN f}

\* the permutations of 1..n: the orders a directory scan can return n files in
Perms(n) == {p \in [1..n -> 1..n] : \A i, j \in 1..n : p[i] = p[j] => i = j}

\* files in the order glob returned them
Enumerate(dir, order) == [i \in 1..Len(dir) |-> dir[order[i]]]

RECURSIVE Flatten(_)
Flatten(seqs) ==
    IF seqs = <<>> THEN <<>> ELSE seqs[1] \o Flatten(Tail(seqs))

----------------------------------------------------------------------------
(* load_all_summaries *)

KeyCondition == <<"C", "o", "n", "d", "i", "t", "i", "o", "n">>
KeyInitialBoidCount == <<"I", "n", "i", "t", "i", "a", "l", " ", "B", "o", "i", "d", " ", "C", "o", "u", "n", "t">>
KeyTotalDuration == <<"T", "o", "t", "a", "l", " ", "D", "u", "r", "a", "t", "i", "o", "n">>
KeyTotalKills == <<"T", "o", "t", "a", "l", " ", "K", "i", "l", "l", "s">>
KeyCaptureRate == <<"C", "a", "p", "t", "u", "r", "e", " ", "R", "a", "t", "e">>
KeyFirstKillTime == <<"F", "i", "r", "s", "t", " ", "K", "i", "l", "l", " ", "T", "i", "m", "e">>

NumericColumns ==
    {KeyInitialBoidCount, KeyTotalDuration, KeyTotalKills, KeyCaptureRate}

EmptyDict == [k \in {} |-> <<>>]

\* data[key] = val
DictSet(data, key, val) ==
    [k \in (DOMAIN data) \cup {key} |-> IF k = key THEN val ELSE data[k]]

\* for line in fp: a text file yields each line with its newline
ReadLines(file) == [i \in 1..Len(file.lines) |-> file.lines[i] \o <<"\n">>]

\* AcceptsLine without the separator test
AcceptsAnyColon(line) == Contains(line, <<":">>)

\* ':' in line and '===' not in line
AcceptsLine(line) ==
    Contains(line, <<":">>) /\ ~Contains(line, <<"=", "=", "=">>)

\* key.strip()
LineKey(line) == Strip(SplitFirst(line, <<":">>)[1])

\* val.strip().replace('s', '').replace(' per minute', '')
LineValue(line) ==
    Remove(Remove(Strip(SplitFirst(line, <<":">>)[2]), <<"s">>),
           <<" ", "p", "e", "r", " ", "m", "i", "n", "u", "t", "e">>)

\* the body of the loop over the lines of one file, from data
RECURSIVE ParseLines(_, _)
ParseLines(lines, data) ==
    IF lines = <<>> THEN data
    ELSE ParseLines(
            Tail(lines),
            IF AcceptsLine(lines[1])
            THEN DictSet(data, LineKey(lines[1]), LineValue(lines[1]))
            ELSE data)

ParseSummary(file) == ParseLines(ReadLines(file), EmptyDict)

\* if data: summaries.append(data), over the files in glob order
RECURSIVE CollectSummaries(_)
CollectSummaries(files) ==
    IF files = <<>> THEN <<>>
    ELSE LET data == ParseSummary(files[1])
         IN  (IF DOMAIN data # {} THEN <<data>> ELSE <<>>)
                 \o CollectSummaries(Tail(files))

\* pd.DataFrame(summaries): the union of the keys, NaN where a dict has none
DataFrame(dicts) ==
    LET cols == UNION {DOMAIN dicts[i] : i \in 1..Len(dicts)}
    IN  [columns |-> cols,
         rows    |-> [i \in 1..Len(dicts) |->
                        [c \in cols |-> IF c \in DOMAIN dicts[i]
                                        THEN Text(dicts[i][c])
                                        ELSE NaN]]]

\* one cell of a column under pd.to_numeric(col, errors='coerce')
CoerceCell(cell) == IF cell.nan THEN NaN ELSE ToNumeric(cell.text)

\* one cell under pd.to_numeric(col.str.replace('N/A', ''), errors='coerce')
CoerceFirstKillCell(cell) ==
    IF cell.nan THEN NaN ELSE ToNumeric(Remove(cell.text, <<"N", "/", "A">>))

\* the numeric conversion of the known columns that are present
Coerce(df) ==
    [columns |-> df.columns,
     rows    |-> [i \in 1..Len(df.rows) |->
                    [c \in df.columns |->
                        IF c \in NumericColumns THEN CoerceCell(df.rows[i][c])
                        ELSE IF c = KeyFirstKillTime
                             THEN CoerceFirstKillCell(df.rows[i][c])
                             ELSE df.rows[i][c]]]]

----------------------------------------------------------------------------
(* load_all_captures, load_all_snapshots *)

CaptureColumns == {"condition", "time_sec", "kill_number", "boids_in_view"}

SnapshotColumns == {"condition", "time_sec", "boid_count"}

\* dfs: the tables of the files pd.read_csv could read, in glob order
RECURSIVE ReadAll(_)
ReadAll(files) ==
    IF files = <<>> THEN <<>>
    ELSE (IF files[1].ok THEN <<files[1].rows>> ELSE <<>>)
             \o ReadAll(Tail(files))

\* pd.concat(dfs, ignore_index=True) if dfs else pd.DataFrame()
ConcatOrEmpty(dfs, columns) ==
    IF dfs # <<>>
    THEN [columns |-> columns, rows |-> Flatten(dfs)]
    ELSE EmptyFrame

LoadCsv(files, columns) == ConcatOrEmpty(ReadAll(files), columns)

----------------------------------------------------------------------------
(* sort_values('Condition') *)

Cond(row) == row[KeyCondition]

\* a sorts no later than b: ascending text, missing values last
CondLeq(a, b) == b.nan \/ (~a.nan /\ ~StrLess(b.text, a.text))

\* SortValues that leaves the rows as they are
Unsorted(rows) == {rows}

\* The default sort kind is not stable: rows with equal Condition come in
\* any order.  Every table sort_values can return.
SortValues(rows) ==
    {[i \in 1..Len(rows) |-> rows[p[i]]] :
        p \in {q \in Perms(Len(rows)) :
                 \A i, j \in 1..Len(rows) :
                     i < j => CondLeq(Cond(rows[q[i]]), Cond(rows[q[j]]))}}

\* FilterPrefix testing the prefix anywhere in the Condition
RECURSIVE FilterContains(_, _)
FilterContains(rows, prefix) ==
    IF rows = <<>> THEN <<>>
    ELSE (IF Contains(Cond(rows[1]).text, prefix) THEN <<rows[1]>> ELSE <<>>)
             \o FilterContains(Tail(rows), prefix)

\* df[df['Condition'].str.startswith(prefix)], the row order kept
RECURSIVE FilterPrefix(_, _)
FilterPrefix(rows, prefix) ==
    IF rows = <<>> THEN <<>>
    ELSE (IF StartsWith(Cond(rows[1]).text, prefix) THEN <<rows[1]>> ELSE <<>>)
             \o FilterPrefix(Tail(rows), prefix)

----------------------------------------------------------------------------
(* print_summary_table *)

TableColumns ==
    {KeyCondition, KeyInitialBoidCount, KeyFirstKillTime, KeyCaptureRate,
     KeyTotalDuration}

\* summaries[[...the five columns...]]
Project(rows) == [i \in 1..Len(rows) |-> [c \in TableColumns |-> rows[i][c]]]

----------------------------------------------------------------------------
(* plot_confusion_effect *)

NoDiff == [defined |-> FALSE, value |-> 0]

Diff(v) == [defined |-> TRUE, value |-> v]

\* GroupDiff without the groupby: the difference to the previous row of the
\* table, whatever its condition
RECURSIVE DiffUngrouped(_, _)
DiffUngrouped(rows, last) ==
    IF rows = <<>> THEN <<>>
    ELSE LET d == IF "any" \in DOMAIN last
                  THEN Diff(rows[1].time_sec - last["any"])
                  ELSE NoDiff
         IN  <<d>> \o DiffUngrouped(Tail(rows),
                                    [c \in {"any"} |-> rows[1].time_sec])

\* captures.groupby('condition')['time_sec'].diff(): rows are visited in table
\* order, last maps each condition seen so far to its latest time_sec
RECURSIVE GroupDiff(_, _)
GroupDiff(rows, last) ==
    IF rows = <<>> THEN <<>>
    ELSE LET r == rows[1]
             d == IF r.condition \in DOMAIN last
                  THEN Diff(r.time_sec - last[r.condition])
                  ELSE NoDiff
         IN  <<d>> \o GroupDiff(Tail(rows),
                        [c \in (DOMAIN last) \cup {r.condition} |->
                            IF c = r.condition THEN r.time_sec ELSE last[c]])

\* captures['time_diff'] = ...: the copy of the table with the new column
WithTimeDiff(rows) ==
    LET d == GroupDiff(rows, [c \in {} |-> 0])
    IN  [i \in 1..Len(rows) |->
            [condition     |-> rows[i].condition,
             time_sec      |-> rows[i].time_sec,
             kill_number   |-> rows[i].kill_number,
             boids_in_view |-> rows[i].boids_in_view,
             time_diff     |-> d[i]]]

\* captures.dropna(subset=['time_diff'])
DropNaDiff(rows) == SelectSeq(rows, LAMBDA r : r.time_diff.defined)

RECURSIVE SumSeq(_)
SumSeq(xs) == IF xs = <<>> THEN 0 ELSE xs[1] + SumSeq(Tail(xs))

\* the least length of valid above which the line is fitted
TrendMinRows == 2

NoTrend == [fitted |-> FALSE, slopeNum |-> 0, slopeDen |-> 0]

\* np.polyfit(valid['boids_in_view'], valid['time_diff'], 1)[0] as the
\* least-squares quotient slopeNum/slopeDen; slopeDen = 0 is rank-deficient
\* data (one x value), where numpy decides what z[0] is.
PolyFit(valid) ==
    LET n   == Len(valid)
        x   == [i \in 1..n |-> valid[i].boids_in_view]
        y   == [i \in 1..n |-> valid[i].time_diff.value]
        sx  == SumSeq(x)
        sy  == SumSeq(y)
        sxy == SumSeq([i \in 1..n |-> x[i] * y[i]])
        sxx == SumSeq([i \in 1..n |-> x[i] * x[i]])
    IN  [fitted   |-> TRUE,
         slopeNum |-> n * sxy - sx * sy,
         slopeDen |-> n * sxx - sx * sx]

\* FitTrend with the guard off by one: len(valid) >= 2
FitTrendFromTwo(valid) ==
    IF Len(valid) >= TrendMinRows THEN PolyFit(valid) ELSE NoTrend

\* if len(valid) > 2: z = np.polyfit(...)
FitTrend(valid) == IF Len(valid) > TrendMinRows THEN PolyFit(valid) ELSE NoTrend

----------------------------------------------------------------------------
(* write_analysis_report *)

Prefixes == <<"A", "B", "C">>

Rate(row) == row[KeyCaptureRate]

\* the position of the first row, in table order, whose Capture Rate no row
\* that has one exceeds (idxmax skips NaN); 0 when no row has a Capture Rate
RECURSIVE IdxMaxFrom(_, _, _)
IdxMaxFrom(rows, i, best) ==
    IF i > Len(rows) THEN best
    ELSE IF Rate(rows[i]).nan THEN IdxMaxFrom(rows, i + 1, best)
    ELSE IF best = 0 \/ NumLess(Rate(rows[best]), Rate(rows[i]))
         THEN IdxMaxFrom(rows, i + 1, i)
         ELSE IdxMaxFrom(rows, i + 1, best)

\* IdxMax taking the last of the rows that share the greatest Capture Rate
RECURSIVE IdxMaxLastFrom(_, _, _)
IdxMaxLastFrom(rows, i, best) ==
    IF i > Len(rows) THEN best
    ELSE IF Rate(rows[i]).nan THEN IdxMaxLastFrom(rows, i + 1, best)
    ELSE IF best = 0 \/ ~NumLess(Rate(rows[i]), Rate(rows[best]))
         THEN IdxMaxLastFrom(rows, i + 1, i)
         ELSE IdxMaxLastFrom(rows, i + 1, best)

IdxMaxLast(rows) == IdxMaxLastFrom(rows, 1, 0)

IdxMax(rows) == IdxMaxFrom(rows, 1, 0)

RECURSIVE IdxMinFrom(_, _, _)
IdxMinFrom(rows, i, best) ==
    IF i > Len(rows) THEN best
    ELSE IF Rate(rows[i]).nan THEN IdxMinFrom(rows, i + 1, best)
    ELSE IF best = 0 \/ NumLess(Rate(rows[i]), Rate(rows[best]))
         THEN IdxMinFrom(rows, i + 1, i)
         ELSE IdxMinFrom(rows, i + 1, best)

IdxMin(rows) == IdxMinFrom(rows, 1, 0)

NoRecord == [found |-> FALSE]

Record(rows, i) == [found |-> TRUE, pos |-> i, row |-> rows[i]]

----------------------------------------------------------------------------
(* main: one action per statement of main(), in its order *)

Raise(e) ==
    /\ pc' = "raised"
    /\ err' = e

\* summaries = load_all_summaries()
LoadAllSummaries ==
    /\ pc = "load_all_summaries"
    /\ \E order \in Perms(Len(summaryDir)) :
        LET files == Enumerate(summaryDir, order)
        IN  /\ summaryOrder' = order
            /\ IF \E i \in 1..Len(files) : ~files[i].readable
               THEN \* open(f, 'r') or the read raises, and nothing catches it
                    /\ Raise("OSError")
                    /\ UNCHANGED <<parsed, summaries>>
               ELSE /\ parsed' = CollectSummaries(files)
                    /\ summaries' = Coerce(DataFrame(parsed'))
                    /\ pc' = "load_all_captures"
                    /\ err' = err
    /\ UNCHANGED <<summaryDir, captureDir, snapshotDir, captureOrder,
                   snapshotOrder, captures, snapshots, summaryTable, timeDiff,
                   trend, plotGroups, reportDf, reportGroups, fastest, slowest>>

\* captures = load_all_captures()
LoadAllCaptures ==
    /\ pc = "load_all_captures"
    /\ \E order \in Perms(Len(captureDir)) :
        /\ captureOrder' = order
        /\ captures' = LoadCsv(Enumerate(captureDir, order), CaptureColumns)
    /\ pc' = "load_all_snapshots"
    /\ UNCHANGED <<summaryDir, captureDir, snapshotDir, summaryOrder,
                   snapshotOrder, err, parsed, summaries, snapshots,
                   summaryTable, timeDiff, trend, plotGroups, reportDf,
                   reportGroups, fastest, slowest>>

\* snapshots = load_all_snapshots()
LoadAllSnapshots ==
    /\ pc = "load_all_snapshots"
    /\ \E order \in Perms(Len(snapshotDir)) :
        /\ snapshotOrder' = order
        /\ snapshots' = LoadCsv(Enumerate(snapshotDir, order), SnapshotColumns)
    /\ pc' = "print_conditions"
    /\ UNCHANGED <<summaryDir, captureDir, snapshotDir, summaryOrder,
                   captureOrder, err, parsed, summaries, captures,
                   summaryTable, timeDiff, trend, plotGroups, reportDf,
                   reportGroups, fastest, slowest>>

\* print(f"Conditions: {sorted(summaries['Condition'].unique())}")
PrintConditions ==
    /\ pc = "print_conditions"
    /\ IF KeyCondition \notin summaries.columns
       THEN Raise("KeyError")
       ELSE IF \E i \in 1..Len(summaries.rows) : Cond(summaries.rows[i]).nan
            THEN \* sorted() compares a float NaN with a str
                 Raise("TypeError")
            ELSE pc' = "print_summary_table" /\ err' = err
    /\ UNCHANGED <<summaryDir, captureDir, snapshotDir, summaryOrder,
                   captureOrder, snapshotOrder, parsed, summaries, captures,
                   snapshots, summaryTable, timeDiff, trend, plotGroups,
                   reportDf, reportGroups, fastest, slowest>>

\* print_summary_table(summaries)
PrintSummaryTable ==
    /\ pc = "print_summary_table"
    /\ IF ~(TableColumns \subseteq summaries.columns)
       THEN Raise("KeyError") /\ UNCHANGED summaryTable
       ELSE /\ summaryTable' \in SortValues(Project(summaries.rows))
            /\ pc' = "plot_condition_comparison"
            /\ err' = err
    /\ UNCHANGED <<summaryDir, captureDir, snapshotDir, summaryOrder,
                   captureOrder, snapshotOrder, parsed, summaries, captures,
                   snapshots, timeDiff, trend, plotGroups, reportDf,
                   reportGroups, fastest, slowest>>

\* plot_condition_comparison(summaries): three bar charts of the sorted table
PlotConditionComparison ==
    /\ pc = "plot_condition_comparison"
    /\ pc' = "plot_predation_timeline"
    /\ UNCHANGED <<summaryDir, captureDir, snapshotDir, summaryOrder,
                   captureOrder, snapshotOrder, err, parsed, summaries,
                   captures, snapshots, summaryTable, timeDiff, trend,
                   plotGroups, reportDf, reportGroups, fastest, slowest>>

\* plot_predation_timeline(captures)
PlotPredationTimeline ==
    /\ pc = "plot_predation_timeline"
    /\ IF "condition" \notin captures.columns
       THEN Raise("KeyError")
       ELSE pc' = "plot_confusion_effect" /\ err' = err
    /\ UNCHANGED <<summaryDir, captureDir, snapshotDir, summaryOrder,
                   captureOrder, snapshotOrder, parsed, summaries, captures,
                   snapshots, summaryTable, timeDiff, trend, plotGroups,
                   reportDf, reportGroups, fastest, slowest>>

\* plot_confusion_effect(captures)
PlotConfusionEffect ==
    /\ pc = "plot_confusion_effect"
    /\ timeDiff' = WithTimeDiff(captures.rows)
    /\ trend' = FitTrend(DropNaDiff(timeDiff'))
    /\ pc' = "plot_experiment_groups"
    /\ UNCHANGED <<summaryDir, captureDir, snapshotDir, summaryOrder,
                   captureOrder, snapshotOrder, err, parsed, summaries,
                   captures, snapshots, summaryTable, plotGroups, reportDf,
                   reportGroups, fastest, slowest>>

\* one axis of plot_experiment_groups: the prefix's rows, sorted, or the
\* 'No data for <prefix>' text when there are none
GroupAxis(rows) == [nodata |-> Len(rows) = 0, rows |-> rows]

\* plot_experiment_groups(summaries)
PlotExperimentGroups ==
    /\ pc = "plot_experiment_groups"
    /\ \E a \in SortValues(FilterPrefix(summaries.rows, <<Prefixes[1]>>)),
          b \in SortValues(FilterPrefix(summaries.rows, <<Prefixes[2]>>)),
          c \in SortValues(FilterPrefix(summaries.rows, <<Prefixes[3]>>)) :
        plotGroups' = <<GroupAxis(a), GroupAxis(b), GroupAxis(c)>>
    /\ pc' = "write_analysis_report"
    /\ UNCHANGED <<summaryDir, captureDir, snapshotDir, summaryOrder,
                   captureOrder, snapshotOrder, err, parsed, summaries,
                   captures, snapshots, summaryTable, timeDiff, trend,
                   reportDf, reportGroups, fastest, slowest>>

\* one section of the report: written only if len(group) > 0
GroupSection(rows) == [written |-> Len(rows) > 0, rows |-> rows]

\* write_analysis_report(summaries, captures)
WriteAnalysisReport ==
    /\ pc = "write_analysis_report"
    /\ \E df \in SortValues(summaries.rows) :
        /\ reportDf' = df
        /\ reportGroups' =
             [i \in 1..Len(Prefixes) |->
                 GroupSection(FilterPrefix(df, <<Prefixes[i]>>))]
        /\ IF IdxMax(df) = 0
           THEN \* no row has a Capture Rate: idxmax gives no label to look up
                /\ Raise("ValueError")
                /\ UNCHANGED <<fastest, slowest>>
           ELSE /\ fastest' = Record(df, IdxMax(df))
                /\ slowest' = Record(df, IdxMin(df))
                /\ pc' = "done"
                /\ err' = err
    /\ UNCHANGED <<summaryDir, captureDir, snapshotDir, summaryOrder,
                   captureOrder, snapshotOrder, parsed, summaries, captures,
                   snapshots, summaryTable, timeDiff, trend, plotGroups>>

Next ==
    \/ LoadAllSummaries
    \/ LoadAllCaptures
    \/ LoadAllSnapshots
    \/ PrintConditions
    \/ PrintSummaryTable
    \/ PlotConditionComparison
    \/ PlotPredationTimeline
    \/ PlotConfusionEffect
    \/ PlotExperimentGroups
    \/ WriteAnalysisReport

\* the state when main() starts, over the directory contents
Start ==
    /\ summaryOrder = <<>>
    /\ captureOrder = <<>>
    /\ snapshotOrder = <<>>
    /\ pc = "load_all_summaries"
    /\ err = "none"
    /\ parsed = <<>>
    /\ summaries = EmptyFrame
    /\ captures = EmptyFrame
    /\ snapshots = EmptyFrame
    /\ summaryTable = <<>>
    /\ timeDiff = <<>>
    /\ trend = NoTrend
    /\ plotGroups = <<>>
    /\ reportDf = <<>>
    /\ reportGroups = <<>>
    /\ fastest = NoRecord
    /\ slowest = NoRecord

----------------------------------------------------------------------------
(* The directory contents main() is run on *)

MaxSummaryFiles == 2
MaxReportFiles == 3
MaxCaptureFiles == 2
MaxSnapshotFiles == 2
MaxCaptureRows == 4
MaxLineLen == 5
MaxPoolLines == 2

\* the sequences of at most n members of pool, up to the order of the members
\* (the loaders choose the order)
Dirs(pool, n) ==
    UNION {{[i \in 1..k |-> pool[ix[i]]] :
              ix \in {f \in [1..k -> 1..Len(pool)] :
                        \A i, j \in 1..k : i < j => f[i] < f[j]}} :
           k \in 0..n}

\* the sequences of at most n members of the set S
SeqsUpTo(S, n) == UNION {[1..k -> S] : k \in 0..n}

Unreadable == [readable |-> FALSE, lines |-> <<>>]

TextFile(lines) == [readable |-> TRUE, lines |-> lines]

SeparatorLine == <<"=", "=", "=", " ", "S", "u", "m", "m", "a", "r", "y", ":", " ", "r", "u", "n", " ", "=", "=", "=">>
NoColonLine == <<"n", "o", " ", "k", "i", "l", "l", "s", " ", "r", "e", "c", "o", "r", "d", "e", "d">>

KeyValueLine(key, value) == key \o <<":", " ">> \o value

\* a summary as the simulator writes it, with the given raw values
SummaryFile(cond, count, duration, kills, first, rate) ==
    TextFile(<<SeparatorLine,
               KeyValueLine(KeyCondition, cond),
               KeyValueLine(KeyInitialBoidCount, count),
               KeyValueLine(KeyTotalDuration, duration),
               KeyValueLine(KeyTotalKills, kills),
               KeyValueLine(KeyFirstKillTime, first),
               KeyValueLine(KeyCaptureRate, rate)>>)

Run(cond, first, rate) ==
    SummaryFile(cond, <<"5", "0">>, <<"4", "2", ".", "0", "s">>, <<"1", "2">>, first, rate)

\* a summary with no key: value line
NoPairs == TextFile(<<SeparatorLine, NoColonLine>>)

RunA1 == Run(<<"A", "1">>, <<"3", ".", "5", "s">>, <<"4", ".", "0", " ", "p", "e", "r", " ", "m", "i", "n", "u", "t", "e">>)
RunA2 == Run(<<"A", "2">>, <<"1", ".", "2", "5", "s">>, <<"6", ".", "0", " ", "p", "e", "r", " ", "m", "i", "n", "u", "t", "e">>)
RunB1 == Run(<<"B", "1">>, <<"N", "/", "A">>, <<"2", ".", "0", " ", "p", "e", "r", " ", "m", "i", "n", "u", "t", "e">>)
RunB2 == Run(<<"B", "2">>, <<"3", ".", "5", "s">>, <<"6", ".", "0", " ", "p", "e", "r", " ", "m", "i", "n", "u", "t", "e">>)
RunC1 == Run(<<"C", "1">>, <<"N", "/", "A">>, <<"N", "/", "A">>)
RunDA1 == Run(<<"D", "A", "1">>, <<"7", "s">>, <<"2", ".", "0", " ", "p", "e", "r", " ", "m", "i", "n", "u", "t", "e">>)

\* the summaries main() is run on when the whole directory varies
SummaryPool == <<Unreadable, NoPairs, RunA1, RunB1, RunA2>>

\* the summaries the report is written from
ReportPool == <<NoPairs, RunA1, RunA2, RunB1, RunB2, RunC1, RunDA1>>

Malformed == [ok |-> FALSE, rows |-> <<>>]

Csv(rows) == [ok |-> TRUE, rows |-> rows]

Capture(cond, t, k, b) ==
    [condition |-> cond, time_sec |-> t, kill_number |-> k,
     boids_in_view |-> b]

CapturesA1 == Csv(<<Capture("A1", 2, 1, 3), Capture("A1", 5, 2, 1)>>)
CapturesA1Later == Csv(<<Capture("A1", 9, 3, 2), Capture("A1", 12, 4, 4)>>)
CapturesB1 ==
    Csv(<<Capture("B1", 1, 1, 2), Capture("B1", 4, 2, 2),
          Capture("B1", 8, 3, 5)>>)
CapturesMixed ==
    Csv(<<Capture("C1", 2, 1, 3), Capture("D1", 3, 1, 1),
          Capture("C1", 5, 2, 1), Capture("D1", 7, 2, 4),
          Capture("C1", 9, 3, 2)>>)
HeaderOnly == Csv(<<>>)

CapturePool ==
    <<Malformed, HeaderOnly, CapturesA1, CapturesA1Later, CapturesB1,
      CapturesMixed>>

Snapshot(cond, t, n) == [condition |-> cond, time_sec |-> t, boid_count |-> n]

SnapshotsA1 == Csv(<<Snapshot("A1", 0, 50), Snapshot("A1", 10, 47)>>)
SnapshotsB1 == Csv(<<Snapshot("B1", 0, 50)>>)

SnapshotPool == <<Malformed, SnapshotsA1, SnapshotsB1>>

\* main() on a directory whose summaries vary
InitSummaries ==
    /\ summaryDir \in Dirs(SummaryPool, MaxSummaryFiles)
    /\ captureDir = <<CapturesMixed>>
    /\ snapshotDir = <<SnapshotsA1>>

\* main() on a directory whose captures vary
InitCaptures ==
    /\ summaryDir = <<RunA1, RunB1>>
    /\ captureDir \in Dirs(CapturePool, MaxCaptureFiles)
    /\ snapshotDir = <<SnapshotsA1>>

\* main() on a directory whose snapshots vary
InitSnapshots ==
    /\ summaryDir = <<RunA1, RunB1>>
    /\ captureDir = <<CapturesMixed>>
    /\ snapshotDir \in Dirs(SnapshotPool, MaxSnapshotFiles)

\* main() on a directory with no artifact
InitEmpty ==
    /\ summaryDir = <<>>
    /\ captureDir = <<>>
    /\ snapshotDir = <<>>

Init ==
    /\ Start
    /\ \/ InitSummaries
       \/ InitCaptures
       \/ InitSnapshots
       \/ InitEmpty

Spec == Init /\ [][Next]_vars

\* main() on the directories of at most MaxReportFiles summaries
InitReport ==
    /\ Start
    /\ summaryDir \in Dirs(ReportPool, MaxReportFiles)
    /\ captureDir = <<CapturesMixed>>
    /\ snapshotDir = <<SnapshotsA1>>

SpecReport == InitReport /\ [][Next]_vars

----------------------------------------------------------------------------
(* main() on every small captures file *)

CaptureConditions == {"A1", "B1"}

\* <<time_sec, boids_in_view>> of the events a row is drawn from
CaptureEvents == {<<2, 3>>, <<5, 1>>, <<9, 3>>}

\* the captures files of at most n rows; kill_number counts the rows
CaptureFiles(n) ==
    {Csv([i \in 1..Len(cs) |->
            Capture(cs[i][1], cs[i][2][1], i, cs[i][2][2])]) :
        cs \in SeqsUpTo(CaptureConditions \X CaptureEvents, n)}

InitCaptureRows ==
    /\ Start
    /\ summaryDir = <<RunA1, RunB1>>
    /\ captureDir \in {<<f>> : f \in CaptureFiles(MaxCaptureRows)}
    /\ snapshotDir = <<SnapshotsA1>>

SpecCaptures == InitCaptureRows /\ [][Next]_vars

----------------------------------------------------------------------------
(* main() on every small summary file *)

LineAlphabet == {":", "=", " ", "k", "s"}

\* lines the summaries of the second family are made of
LinePool ==
    <<<<"k", ":", " ", "v">>,
      <<"k", " ", ":", " ", "1", "s", ":", "2">>,
      <<" ", "w", ":", "x", " ", "p", "e", "r", " ", "m", "i", "n", "u", "t", "e", " ">>,
      <<"=", "=", "=", " ", "k", ":", " ", "v", " ", "=", "=", "=">>,
      <<"k", " ", "=", " ", "v">>,
      <<":">>>>

\* what the five numeric fields are given: the text written after the colon
RawValues ==
    <<<<"4", "2", ".", "0", "s">>, <<"3", ".", "5", " ", "p", "e", "r", " ", "m", "i", "n", "u", "t", "e">>, <<"1", "2">>, <<"0", "s">>, <<"7", ".", "2", "5", "s">>, <<"N", "/", "A">>, <<>>, <<"f", "a", "s", "t">>,
      <<"1", ".", "2", ".", "3">>, <<"s">>, <<"4", " ", "b", "o", "i", "d", "s">>>>

FieldRun(field, raw) ==
    TextFile(<<SeparatorLine,
               KeyValueLine(KeyCondition, <<"A", "1">>),
               KeyValueLine(KeyInitialBoidCount, IF field = 1 THEN raw ELSE <<"5", "0">>),
               KeyValueLine(KeyTotalDuration, IF field = 2 THEN raw ELSE <<"4", "2", ".", "0", "s">>),
               KeyValueLine(KeyTotalKills, IF field = 3 THEN raw ELSE <<"1", "2">>),
               KeyValueLine(KeyFirstKillTime, IF field = 4 THEN raw ELSE <<"3", ".", "5", "s">>),
               KeyValueLine(KeyCaptureRate, IF field = 5 THEN raw ELSE <<"4", ".", "0", " ", "p", "e", "r", " ", "m", "i", "n", "u", "t", "e">>)>>)

NumericFields ==
    <<KeyInitialBoidCount, KeyTotalDuration, KeyTotalKills, KeyFirstKillTime,
      KeyCaptureRate>>

\* the summaries of one line over LineAlphabet
LineFiles == {TextFile(<<l>>) : l \in SeqsUpTo(LineAlphabet, MaxLineLen)}

\* the summaries made of the lines of LinePool
PoolFiles == {TextFile(ls) : ls \in SeqsUpTo(Range(LinePool), MaxPoolLines)}

\* the summaries of a run with one numeric field given a raw value
FieldFiles ==
    {FieldRun(f, RawValues[r]) :
        f \in 1..Len(NumericFields), r \in 1..Len(RawValues)}

InitParse ==
    /\ Start
    /\ summaryDir \in {<<f>> : f \in LineFiles \cup PoolFiles \cup FieldFiles}
                        \cup {<<RunB1, f>> : f \in PoolFiles \cup FieldFiles}
    /\ captureDir = <<CapturesMixed>>
    /\ snapshotDir = <<SnapshotsA1>>

SpecParse == InitParse /\ [][Next]_vars

----------------------------------------------------------------------------
(* Claims *)

\* plot_confusion_effect has returned
ConfusionPlotted ==
    \/ pc \in {"plot_experiment_groups", "write_analysis_report", "done"}
    \/ pc = "raised" /\ err = "ValueError"

\* the rows before row i of the same condition
Earlier(rows, i) == {j \in 1..(i - 1) : rows[j].condition = rows[i].condition}

Latest(S) == CHOOSE j \in S : \A k \in S : k <= j

\* C1: every capture row's time_diff is its time_sec minus the time_sec of the
\* previous row of the same condition in table order, also with conditions
\* interleaved; the first row of each condition has no delta; the rows keep
\* their order and their other values.
C1_InterEventDelta ==
    ConfusionPlotted =>
        /\ Len(timeDiff) = Len(captures.rows)
        /\ \A i \in 1..Len(timeDiff) :
            LET rows == captures.rows
                before == Earlier(rows, i)
            IN  /\ timeDiff[i].condition = rows[i].condition
                /\ timeDiff[i].time_sec = rows[i].time_sec
                /\ timeDiff[i].kill_number = rows[i].kill_number
                /\ timeDiff[i].boids_in_view = rows[i].boids_in_view
                /\ IF before = {}
                   THEN ~timeDiff[i].time_diff.defined
                   ELSE /\ timeDiff[i].time_diff.defined
                        /\ timeDiff[i].time_diff.value =
                             rows[i].time_sec - rows[Latest(before)].time_sec

\* C1 witness: one condition's rows at 2, 5, 9 with a row of another
\* condition between them, and deltas undefined, 3, 4.
C1_Witness ==
    /\ ConfusionPlotted
    /\ \E i, j, m, k \in 1..Len(timeDiff) :
        /\ i < m /\ m < j /\ j < k
        /\ timeDiff[i].condition = "A1" /\ timeDiff[i].time_sec = 2
        /\ timeDiff[m].condition = "B1"
        /\ timeDiff[j].condition = "A1" /\ timeDiff[j].time_sec = 5
        /\ timeDiff[k].condition = "A1" /\ timeDiff[k].time_sec = 9
        /\ ~timeDiff[i].time_diff.defined
        /\ timeDiff[j].time_diff = Diff(3)
        /\ timeDiff[k].time_diff = Diff(4)

\* the rows of the table with a defined delta
ValidRows == {i \in 1..Len(timeDiff) : timeDiff[i].time_diff.defined}

\* C10: the line is fitted over the rows with a defined delta only; with 2 or
\* fewer such rows no fit is made and nothing fails, with 3 or more a fit is
\* made, and it has a slope whenever the rows have two different
\* boids_in_view.
C10_TrendLineGuard ==
    ConfusionPlotted =>
        /\ Cardinality(ValidRows) <= 2 => trend = NoTrend
        /\ Cardinality(ValidRows) >= 3 =>
            /\ trend.fitted
            /\ (\E i, j \in ValidRows :
                    timeDiff[i].boids_in_view # timeDiff[j].boids_in_view)
                => trend.slopeDen > 0

\* C10 witness: exactly 2 rows with a defined delta, and no line.
C10_Witness ==
    /\ ConfusionPlotted
    /\ Cardinality(ValidRows) = 2
    /\ ~trend.fitted


Count(seq, x) == Cardinality({i \in 1..Len(seq) : seq[i] = x})

Ascending(rows) ==
    \A i, j \in 1..Len(rows) :
        i < j => ~StrLess(Cond(rows[j]).text, Cond(rows[i]).text)

HasRate(row) == ~Rate(row).nan

\* C2: the record reported as most (least) efficient has the greatest (least)
\* Capture Rate of all records that have one, and of several records with
\* that rate it is the first in the Condition-sorted table.
C2_ExtremalSelection ==
    fastest.found =>
        /\ slowest.found
        /\ Ascending(reportDf)
        /\ \A r \in Range(summaries.rows) \cup Range(reportDf) :
              Count(reportDf, r) = Count(summaries.rows, r)
        /\ fastest.row = reportDf[fastest.pos]
        /\ slowest.row = reportDf[slowest.pos]
        /\ HasRate(fastest.row) /\ HasRate(slowest.row)
        /\ \A i \in 1..Len(reportDf) :
              HasRate(reportDf[i]) =>
                  /\ ~NumLess(Rate(fastest.row), Rate(reportDf[i]))
                  /\ ~NumLess(Rate(reportDf[i]), Rate(slowest.row))
                  /\ i < fastest.pos => Rate(reportDf[i]) # Rate(fastest.row)
                  /\ i < slowest.pos => Rate(reportDf[i]) # Rate(slowest.row)

\* C2 witness: two records share the greatest Capture Rate, a third has a
\* smaller one, and the first of the two in the sorted table is reported.
C2_Witness ==
    /\ fastest.found
    /\ \E i \in 1..Len(reportDf) :
          i > fastest.pos /\ Rate(reportDf[i]) = Rate(fastest.row)
    /\ NumLess(Rate(slowest.row), Rate(fastest.row))

\* the records of the table whose Condition begins with the prefix
HasPrefix(row, prefix) ==
    Cond(row).text # <<>> /\ Cond(row).text[1] = prefix

\* rows holds exactly the records of the table with the prefix
GroupOf(rows, prefix) ==
    \A r \in Range(summaries.rows) \cup Range(rows) :
        Count(rows, r) =
            IF HasPrefix(r, prefix) THEN Count(summaries.rows, r) ELSE 0

\* C9: for each prefix A, B, C the group holds exactly the records whose
\* Condition starts with the prefix; a record whose Condition starts with A,
\* B or C is in exactly one group; a prefix no record has gives an empty
\* group, shown as the 'No data' text in the plot and left out of the report.
C9_GroupPrefixPartition ==
    /\ plotGroups # <<>> =>
        /\ Len(plotGroups) = Len(Prefixes)
        /\ \A p \in 1..Len(Prefixes) :
            /\ GroupOf(plotGroups[p].rows, Prefixes[p])
            /\ plotGroups[p].nodata <=>
                 ~\E r \in Range(summaries.rows) : HasPrefix(r, Prefixes[p])
        /\ \A r \in Range(summaries.rows) :
              (\E p \in 1..Len(Prefixes) : HasPrefix(r, Prefixes[p])) =>
                  \E p \in 1..Len(Prefixes) :
                      /\ Count(plotGroups[p].rows, r) = Count(summaries.rows, r)
                      /\ \A q \in 1..Len(Prefixes) :
                            q # p => Count(plotGroups[q].rows, r) = 0
    /\ reportGroups # <<>> =>
        /\ Len(reportGroups) = Len(Prefixes)
        /\ \A p \in 1..Len(Prefixes) :
            /\ GroupOf(reportGroups[p].rows, Prefixes[p])
            /\ reportGroups[p].written <=>
                 \E r \in Range(summaries.rows) : HasPrefix(r, Prefixes[p])

\* C9 witness: a table with two A records, one B record and no C record,
\* plotted and reported.
C9_Witness ==
    /\ reportGroups # <<>>
    /\ Len(plotGroups[1].rows) = 2 /\ Len(reportGroups[1].rows) = 2
    /\ Len(plotGroups[2].rows) = 1
    /\ plotGroups[3].nodata /\ ~reportGroups[3].written


\* the file has a line that gives a key: value pair
HasPair(file) ==
    file.readable /\ \E i \in 1..Len(file.lines) : AcceptsLine(ReadLines(file)[i])

\* the row of the results table that one summary file alone gives
RunRecord(file) ==
    LET df == Coerce(DataFrame(<<ParseSummary(file)>>))
    IN  [c \in TableColumns |->
            IF c \in df.columns THEN df.rows[1][c] ELSE NaN]

\* table has one row for each of the files and no other row
OneRowPerFile(table, files) ==
    LET records == [i \in 1..Len(files) |-> RunRecord(files[i])]
    IN  /\ Len(table) = Len(files)
        /\ \E p \in Perms(Len(files)) :
              \A j \in 1..Len(files) : table[j] = records[p[j]]

\* print_summary_table has just returned
TablePrinted == pc = "plot_condition_comparison"

\* write_analysis_report has written the table
ReportWritten == pc = "done" \/ (pc = "raised" /\ err = "ValueError")

\* C3, over every file: every *_summary.txt file the loader enumerates is exactly
\* one row of the results table, no row is without a file, and the rows
\* ascend by Condition.
C3_EveryFileOneRow ==
    /\ TablePrinted =>
          OneRowPerFile(summaryTable, summaryDir) /\ Ascending(summaryTable)
    /\ ReportWritten =>
          OneRowPerFile(Project(reportDf), summaryDir) /\ Ascending(reportDf)

\* C3, over the files that hold a pair: every *_summary.txt file that has at least one key: value
\* line is exactly one row of the results table of print_summary_table and
\* of write_analysis_report, no row is without such a file, and the rows
\* ascend by Condition.
C3_EveryParsedFileOneRow ==
    /\ TablePrinted =>
          /\ OneRowPerFile(summaryTable, SelectSeq(summaryDir, HasPair))
          /\ Ascending(summaryTable)
    /\ ReportWritten =>
          /\ OneRowPerFile(Project(reportDf), SelectSeq(summaryDir, HasPair))
          /\ Ascending(reportDf)

\* C3 witness: a directory with a summary that has no pair beside two that
\* have, glob returning the later Condition first, and a table of two rows.
C3_Witness ==
    /\ ReportWritten
    /\ \E i \in 1..Len(summaryDir) : ~HasPair(summaryDir[i])
    /\ Len(summaryTable) = 2
    /\ StrLess(Cond(summaries.rows[2]).text, Cond(summaries.rows[1]).text)

\* the loaders have returned
Loaded ==
    pc \notin {"load_all_summaries", "load_all_captures", "load_all_snapshots"}
        /\ ~(pc = "raised" /\ err = "OSError")

RECURSIVE TotalRows(_)
TotalRows(files) ==
    IF files = <<>> THEN 0
    ELSE (IF files[1].ok THEN Len(files[1].rows) ELSE 0) + TotalRows(Tail(files))

\* C4: an artifact that cannot be read or parsed never ends the run: the
\* loaders skip it, load every other file, and main goes on.
C4_LocalErrorNeverAborts ==
    /\ ~(pc = "raised" /\ err = "OSError")
    /\ Loaded =>
        /\ Len(parsed) = Len(SelectSeq(summaryDir, HasPair))
        /\ Len(captures.rows) = TotalRows(captureDir)
        /\ Len(snapshots.rows) = TotalRows(snapshotDir)

\* C5: on a directory with no artifact the three loaders give empty tables
\* and main does not raise.
C5_EmptyInputStable ==
    (summaryDir = <<>> /\ captureDir = <<>> /\ snapshotDir = <<>>) =>
        /\ pc # "raised"
        /\ Loaded =>
            /\ summaries = EmptyFrame
            /\ captures = EmptyFrame
            /\ snapshots = EmptyFrame


\* the tables of a run in which glob returns the files in directory order
CanonSummaries == Coerce(DataFrame(CollectSummaries(summaryDir))).rows

CanonTimeDiff == WithTimeDiff(LoadCsv(captureDir, CaptureColumns).rows)

\* where the rows of the k-th captures file start in the table of a run that
\* enumerates the files in the given order
RowsBefore(order, k) ==
    LET at == CHOOSE i \in 1..Len(order) : order[i] = k
    IN  TotalRows(SubSeq(Enumerate(captureDir, order), 1, at - 1))

Identity(n) == [i \in 1..n |-> i]

\* the results table of this run is the one of the run in directory order
SameTable(canon) ==
    /\ TablePrinted => \A t \in SortValues(Project(canon)) : summaryTable = t
    /\ ReportWritten => \A t \in SortValues(canon) : reportDf = t

\* so are the selected records
SameExtremes(canon) ==
    pc = "done" =>
        \A t \in SortValues(canon) :
            /\ fastest.row = t[IdxMax(t)]
            /\ slowest.row = t[IdxMin(t)]

\* and so is the delta of every row of every captures file
SameDeltas ==
    LET canon == CanonTimeDiff
    IN  \A k \in 1..Len(captureDir) :
            captureDir[k].ok =>
                \A j \in 1..Len(captureDir[k].rows) :
                    timeDiff[RowsBefore(captureOrder, k) + j].time_diff =
                        canon[RowsBefore(Identity(Len(captureDir)), k) + j
                             ].time_diff

\* C6: whatever order the directory scan returns the files in,
\* the sorted results table, the delta of every capture row and the most and
\* least efficient records are the same.
C6_OrderIndependent ==
    /\ (TablePrinted \/ ReportWritten) =>
          LET canon == CanonSummaries
          IN  SameTable(canon) /\ SameExtremes(canon)
    /\ pc = "plot_experiment_groups" => SameDeltas

\* load_all_summaries has just returned
SummariesLoaded == pc = "load_all_captures"

HasColon(line) == \E i \in 1..Len(line) : line[i] = ":"

IsSeparator(line) ==
    \E i \in 1..(Len(line) - 2) :
        line[i] = "=" /\ line[i + 1] = "=" /\ line[i + 2] = "="

FirstColon(line) ==
    CHOOSE i \in 1..Len(line) :
        line[i] = ":" /\ \A j \in 1..(i - 1) : line[j] # ":"

\* s without the whitespace at its two ends
Trimmed(s) ==
    LET inked == {i \in 1..Len(s) : s[i] \notin Whitespace}
    IN  IF inked = {} THEN <<>>
        ELSE SubSeq(s, CHOOSE i \in inked : \A j \in inked : i <= j,
                       CHOOSE i \in inked : \A j \in inked : j <= i)

KeyText(line) == Trimmed(SubSeq(line, 1, FirstColon(line) - 1))

ValueText(line) == Trimmed(SubSeq(line, FirstColon(line) + 1, Len(line)))

Colons(s) == Cardinality({i \in 1..Len(s) : s[i] = ":"})

\* the lines of the file that give a pair
PairLines(file) ==
    {i \in 1..Len(file.lines) :
        HasColon(file.lines[i]) /\ ~IsSeparator(file.lines[i])}

\* data is what the claim says the file parses to
ParsedAsClaimed(data, file) ==
    LET lines == file.lines
        pairs == PairLines(file)
    IN  /\ DOMAIN data = {KeyText(lines[i]) : i \in pairs}
        /\ \A k \in DOMAIN data :
            LET last == CHOOSE i \in pairs :
                            /\ KeyText(lines[i]) = k
                            /\ \A j \in pairs : KeyText(lines[j]) = k => j <= i
            IN  /\ data[k] = Remove(Remove(ValueText(lines[last]), <<"s">>),
                                    <<" ", "p", "e", "r", " ", "m", "i", "n", "u", "t", "e">>)
                /\ Colons(data[k]) = Colons(lines[last]) - 1

\* C7: the parsed record of a summary has exactly one key for each distinct
\* trimmed text before the first colon of the lines that have a colon and no
\* '==='; a '===' line gives no key even with a colon, a line with no colon
\* gives nothing, and a line is split at its first colon only: the later
\* colons stay in the value, and key and value are trimmed (the value before
\* its units are removed).
C7_ParserRobustness ==
    SummariesLoaded =>
        LET files == SelectSeq(Enumerate(summaryDir, summaryOrder),
                               LAMBDA f : PairLines(f) # {})
        IN  /\ Len(parsed) = Len(files)
            /\ \A i \in 1..Len(files) : ParsedAsClaimed(parsed[i], files[i])

\* C7 witness: a summary of a '===' line with a colon and a line with two
\* colons parses to the one key k, whose value keeps the second colon.
C7_Witness ==
    /\ SummariesLoaded
    /\ summaryDir = <<TextFile(<<LinePool[4], LinePool[2]>>)>>
    /\ parsed = <<[key \in {<<"k">>} |-> <<"1", ":", "2">>]>>

\* what the raw values of RawValues are as numbers
RawNumbers ==
    <<Num(42, 1), Num(35, 10), Num(12, 1), Num(0, 1), Num(725, 100), NaN, NaN,
      NaN, NaN, NaN, NaN>>

\* C8: in each known numeric field a number followed by 's' or ' per minute'
\* is stored as that number; 'N/A' and any value that is no number once
\* stripped are stored as NaN, never as zero or as text.
C8_NumericCoercion ==
    SummariesLoaded =>
        LET files == Enumerate(summaryDir, summaryOrder)
        IN  /\ \A i \in 1..Len(summaries.rows) :
                \A c \in summaries.columns \cap
                            (NumericColumns \cup {KeyFirstKillTime}) :
                    DOMAIN summaries.rows[i][c] = {"nan", "num", "den"}
            /\ Len(summaries.rows) = Len(files) =>
                \A i \in 1..Len(files) :
                    \A f \in 1..Len(NumericFields), r \in 1..Len(RawValues) :
                        files[i] = FieldRun(f, RawValues[r]) =>
                            summaries.rows[i][NumericFields[f]] = RawNumbers[r]

\* C8 witness: a run with First Kill Time 'N/A' and Total Duration '42.0s'
\* beside one with Capture Rate '3.5 per minute' are stored as NaN, 42 and
\* 3.5.
C8_Witness ==
    /\ SummariesLoaded
    /\ \E i, j \in 1..Len(summaries.rows) :
        /\ Enumerate(summaryDir, summaryOrder)[i] = RunB1
        /\ summaries.rows[i][KeyFirstKillTime] = NaN
        /\ summaries.rows[i][KeyTotalDuration] = Num(42, 1)
        /\ Enumerate(summaryDir, summaryOrder)[j] = FieldRun(5, RawValues[2])
        /\ summaries.rows[j][KeyCaptureRate] = Num(35, 10)

====
